---------------------------- MODULE Spec2Model ----------------------------
(***************************************************************************)
(* Model of notebooks/atari/dqn.ipynb: the epsilon schedule and the DQN    *)
(* training loop that drives it.                                           *)
(*                                                                         *)
(* Python floats are IEEE-754 binary64.  The schedule is computed with the *)
(* same operations, in the same order, as the source, each one rounded to  *)
(* nearest-even on a 53-bit significand.  TLC integers are 32 bits wide,   *)
(* so significands are kept as sequences of bits, least significant first. *)
(***************************************************************************)
EXTENDS Integers, Sequences, FiniteSets, TLC

(***************************************************************************)
(* Natural numbers of any size: sequences of bits, least significant       *)
(* first, with no high-order zero bit (zero is the empty sequence).  The   *)
(* arithmetic works on chunks of 8 bits, so that every intermediate value  *)
(* stays below 2^31.                                                       *)
(***************************************************************************)
MaxOf(S) == CHOOSE x \in S : \A y \in S : y <= x

MinOf(S) == CHOOSE x \in S : \A y \in S : x <= y

\* the n low bits of the integer v
ChunkBits(v, n) == [j \in 1..n |-> (v \div 2 ^ (j - 1)) % 2]

\* the integer whose bits are b, for Len(b) <= 8
ChunkVal(b) ==
    LET g(j) == IF j <= Len(b) THEN b[j] * 2 ^ (j - 1) ELSE 0
    IN  g(1) + g(2) + g(3) + g(4) + g(5) + g(6) + g(7) + g(8)

Trim(b) ==
    LET S == {j \in 1..Len(b) : b[j] = 1}
    IN  IF S = {} THEN << >> ELSE SubSeq(b, 1, MaxOf(S))

\* the bits of an integer 0 <= n < 2^30
NatBits(n) == Trim(ChunkBits(n, 30))

Zeros(n) == [j \in 1..n |-> 0]

\* b * 2^n
Shl(b, n) == IF b = << >> THEN << >> ELSE Zeros(n) \o b

LowChunk(b) == SubSeq(b, 1, MinOf({8, Len(b)}))

HighPart(b) == SubSeq(b, MinOf({8, Len(b)}) + 1, Len(b))

\* b * k + c (untrimmed) for integers 0 <= c <= k < 2^22
RECURSIVE MulSmall(_, _, _)
MulSmall(b, k, c) ==
    IF b = << >> THEN ChunkBits(c, 30)
    ELSE LET w == ChunkVal(LowChunk(b)) * k + c
         IN  ChunkBits(w % 256, 8) \o MulSmall(HighPart(b), k, w \div 256)

\* quotient (untrimmed) and remainder of b by an integer 0 < k < 2^22
RECURSIVE DivSmall(_, _)
DivSmall(b, k) ==
    IF b = << >> THEN [q |-> << >>, r |-> 0]
    ELSE LET lo  == LowChunk(b)
             hi  == DivSmall(HighPart(b), k)
             cur == hi.r * 2 ^ Len(lo) + ChunkVal(lo)
         IN  [q |-> ChunkBits(cur \div k, Len(lo)) \o hi.q, r |-> cur % k]

\* a - b - borrow (untrimmed) for a >= b + borrow
RECURSIVE SubBits(_, _, _)
SubBits(a, b, borrow) ==
    IF a = << >> THEN << >>
    ELSE LET d == ChunkVal(LowChunk(a)) - ChunkVal(LowChunk(b)) - borrow
         IN  ChunkBits((d + 256) % 256, 8)
             \o SubBits(HighPart(a), HighPart(b), IF d < 0 THEN 1 ELSE 0)

\* b + 1
IncBits(b) ==
    IF \A j \in 1..Len(b) : b[j] = 1 THEN Zeros(Len(b)) \o << 1 >>
    ELSE LET z == MinOf({j \in 1..Len(b) : b[j] = 0})
         IN  [j \in 1..Len(b) |->
                 IF j < z THEN 0 ELSE IF j = z THEN 1 ELSE b[j]]

\* a < b for trimmed a, b
BitsLess(a, b) ==
    \/ Len(a) < Len(b)
    \/ /\ Len(a) = Len(b)
       /\ \E j \in 1..Len(a) :
             /\ a[j] < b[j]
             /\ \A k \in (j + 1)..Len(a) : a[k] = b[k]

BitsLeq(a, b) == a = b \/ BitsLess(a, b)

\* |a - b| for trimmed a, b
BitsDist(a, b) ==
    IF BitsLess(a, b) THEN Trim(SubBits(b, a, 0)) ELSE Trim(SubBits(a, b, 0))

(***************************************************************************)
(* binary64 values >= 0: [m, e] stands for m * 2^e, m a 53-bit significand *)
(* with its top bit set (or m empty, e = 0 for 0.0).  Every value of the   *)
(* schedule lies in [2^-30, 1], far from overflow and from subnormals.     *)
(***************************************************************************)
Precision == 53

FZero == [m |-> << >>, e |-> 0]

\* n * 2^e (n trimmed; sticky: a nonzero part below the last bit of n was
\* dropped) rounded to the nearest binary64, ties to even
FRound(n, e, sticky) ==
    LET L == Len(n) IN
    IF L = 0 THEN FZero
    ELSE IF L <= Precision
    THEN [m |-> Shl(n, Precision - L), e |-> e - (Precision - L)]
    ELSE LET sh    == L - Precision
             q     == SubSeq(n, sh + 1, L)
             guard == n[sh]
             rest  == sticky \/ \E j \in 1..(sh - 1) : n[j] = 1
             up    == guard = 1 /\ (rest \/ q[1] = 1)
             q2    == IF up THEN IncBits(q) ELSE q
         IN  IF Len(q2) > Precision
             THEN [m |-> SubSeq(q2, 2, Precision + 1), e |-> e + sh + 1]
             ELSE [m |-> q2, e |-> e + sh]

\* float(n) for an int 0 <= n < 2^30: exact
FInt(n) == FRound(NatBits(n), 0, FALSE)

\* x / k for a binary64 x and an int k > 0 (Python converts k exactly).  The
\* quotient is computed to 32 bits below the dividend's last: with a 53-bit
\* dividend and a divisor below 2^22 that leaves it at least 55 bits.
FDivInt(x, k) ==
    LET d == DivSmall(Shl(x.m, 32), k)
    IN  FRound(Trim(d.q), x.e - 32, d.r # 0)

\* x * k for a binary64 x and an int k >= 0 (Python converts k exactly)
FMulInt(x, k) == FRound(Trim(MulSmall(x.m, k, 0)), x.e, FALSE)

\* x - y for binary64 x >= y >= 0
FSub(x, y) ==
    LET lo == IF x.e < y.e THEN x.e ELSE y.e
    IN  FRound(Trim(SubBits(Shl(x.m, x.e - lo), Shl(y.m, y.e - lo), 0)),
               lo, FALSE)

\* x < y for binary64 x, y >= 0
FLess(x, y) ==
    IF y.m = << >> THEN FALSE
    ELSE IF x.m = << >> THEN TRUE
    ELSE x.e < y.e \/ (x.e = y.e /\ BitsLess(x.m, y.m))

FLeq(x, y) == x = y \/ FLess(x, y)

\* the float literal p/q written in decimal in the source (0.9 is Lit(9, 10)):
\* the binary64 nearest to the rational
Lit(p, q) == FDivInt(FInt(p), q)

\* the float literals of the source, and the int 1 as a float
f0_9 == Lit(9, 10)

f0_09 == Lit(9, 100)

f0_1 == Lit(1, 10)

f0_01 == Lit(1, 100)

f1 == FInt(1)

(***************************************************************************)
(* def epsilon(T)                                                          *)
(***************************************************************************)
M == 1000000

\* epsilon with the first test written T <= M
epsilon_le(T) ==
    IF T <= M
    THEN FSub(f1, FDivInt(FMulInt(f0_9, T), M))
    ELSE IF T < 2 * M
    THEN FSub(f0_1, FDivInt(FMulInt(f0_09, T - M), M))
    ELSE f0_01

\* epsilon with the second segment starting again from 1
epsilon_restart(T) ==
    IF T < M
    THEN FSub(f1, FDivInt(FMulInt(f0_9, T), M))
    ELSE IF T < 2 * M
    THEN FSub(f1, FDivInt(FMulInt(f0_09, T - M), M))
    ELSE f0_01

\* epsilon with the second segment computed from T, not from T - M
epsilon_noshift(T) ==
    IF T < M
    THEN FSub(f1, FDivInt(FMulInt(f0_9, T), M))
    ELSE IF T < 2 * M
    THEN FSub(f0_1, FDivInt(FMulInt(f0_09, T), M))
    ELSE f0_01

\* epsilon with the floor 0.1 in place of 0.01
epsilon_floor(T) ==
    IF T < M
    THEN FSub(f1, FDivInt(FMulInt(f0_9, T), M))
    ELSE IF T < 2 * M
    THEN FSub(f0_1, FDivInt(FMulInt(f0_09, T - M), M))
    ELSE f0_1

epsilon(T) ==
    IF T < M
    THEN FSub(f1, FDivInt(FMulInt(f0_9, T), M))
    ELSE IF T < 2 * M
    THEN FSub(f0_1, FDivInt(FMulInt(f0_09, T - M), M))
    ELSE f0_01

(***************************************************************************)
(* static parameters                                                       *)
(***************************************************************************)
num_episodes == 3000000

\* env.spec.max_episode_steps: a property of the environment
num_steps == 2

buffer_warmup_period == 50000

target_model_sync_period == 10000

capacity == 1000000

batch_size == 32

(***************************************************************************)
(* '{:06d}'.format(n) for n >= 0: the decimal digits of n, most            *)
(* significant first, padded with zeros on the left to a width of 6.       *)
(***************************************************************************)
Format06d(n) ==
    LET d == MinOf({k \in 1..9 : n < 10 ^ k})
        w == MaxOf({6, d})
    IN  [j \in 1..w |-> (n \div 10 ^ (w - j)) % 10]

\* './data/dqn/gifs/ep{:06d}.gif'.format(ep)
GifPath(ep) ==
    [dir |-> "./data/dqn/gifs/", stem |-> "ep", digits |-> Format06d(ep),
     ext |-> ".gif"]

VARIABLES
    pc,             \* the line about to be executed
    callT, callRet, \* a direct call of epsilon: its arguments, its results
    episodes,       \* iterations of the outer loop begun
    t,              \* iterations of the inner loop begun in this episode
    envT, envEp,    \* env.T, env.ep (TrainMonitor)
    envLive,        \* env holds an episode that has not returned done
    envObs,         \* env's current observation: steps since its reset
    policy_epsilon, \* policy.epsilon
    s, a, s_next, done,
    buffer_adds,    \* calls of buffer.add so far
    buffer_len,     \* transitions held by the buffer
    buffer_last,    \* the transition added last
    gif,            \* the last call of generate_gif
    \* history of the run that is modelled
    start,          \* the value of episodes the modelled run began with
    trainSteps,     \* calls of env.step made by the training loop so far
    epSteps,        \* and those made in this iteration of the outer loop
    pre,            \* calls made in this outer iteration before the inner loop
    calls,          \* calls made in this inner iteration, in order
    sched,          \* the T and value of the last policy.epsilon = epsilon(T)
    schedPrev,      \* and of the one before
    Tseen,          \* the values env.T has taken since the run began
    TafterStep,     \* those it took on return of a training env.step
    syncLog         \* env.T at each call of q.sync_target_model

envVars == << envT, envEp, envLive, envObs >>
locals == << s, a, s_next, done >>
bufVars == << buffer_adds, buffer_len, buffer_last >>
callVars == << callT, callRet >>
histVars == << start, trainSteps, epSteps, pre, calls, sched, schedPrev,
               Tseen, TafterStep, syncLog >>

vars == << pc, callVars, episodes, t, envVars, policy_epsilon, locals,
           bufVars, gif, histVars >>

(***************************************************************************)
(* A direct call of epsilon, on two arguments.                             *)
(***************************************************************************)
EpsWin == 2

EpsInputs ==
    (0..EpsWin) \cup ((M - EpsWin)..(M + EpsWin))
    \cup ((2 * M - EpsWin)..(2 * M + EpsWin))

\* the loop's variables while it does not run
LoopIdle ==
    /\ episodes = 0 /\ t = 0
    /\ envT = 0 /\ envEp = 0 /\ envLive = FALSE /\ envObs = 0
    /\ policy_epsilon = << >>
    /\ s = << >> /\ a = << >> /\ s_next = << >> /\ done = FALSE
    /\ buffer_adds = 0 /\ buffer_len = 0 /\ buffer_last = << >>
    /\ gif = << >>
    /\ start = 0 /\ trainSteps = 0 /\ epSteps = 0
    /\ pre = << >> /\ calls = << >>
    /\ sched = << >> /\ schedPrev = << >>
    /\ Tseen = {} /\ TafterStep = {} /\ syncLog = << >>

EpsInit ==
    /\ pc = "call"
    /\ callT \in EpsInputs \X EpsInputs
    /\ callRet = << >>
    /\ LoopIdle

EpsilonCall ==
    /\ pc = "call"
    /\ callRet' = << epsilon(callT[1]), epsilon(callT[2]) >>
    /\ pc' = "returned"
    /\ UNCHANGED << callT, episodes, t, envVars, policy_epsilon, locals,
                    bufVars, gif, histVars >>

EpsNext == EpsilonCall

SpecEps == EpsInit /\ [][EpsNext]_vars

(***************************************************************************)
(* The training loop.  The run is modelled from the head of the outer loop *)
(* (line 53), at step counts around the values the loop compares env.T     *)
(* with, for RunIters iterations of the outer loop.                        *)
(***************************************************************************)
RunIters == 2

TWin == 2

\* env.step calls generate_gif makes on the env it is handed, at most
MaxGifSteps == 2

(***************************************************************************)
(* The library, as far as the loop depends on it.  TrainMonitor counts the *)
(* steps in env.T and the episodes in env.ep.  generate_gif is handed the  *)
(* training env itself: it may leave it alone (0 steps) or record an       *)
(* episode on it, which resets it and steps it.                            *)
(***************************************************************************)
TrainMonitor_step(T) == T + 1

TrainMonitor_reset(ep) == ep + 1

generate_gif_steps == 0..MaxGifSteps

\* the head of the outer loop with n iterations done, env.T = T, env.ep = ep
\* and adds transitions added: every episode took between 1 and num_steps
\* steps, and each of the ep - n runs of generate_gif that reset the env
\* (after the warm-up only) stepped it between 1 and MaxGifSteps times
LoopHead(n, T, ep, adds) ==
    /\ n \in 0..num_episodes
    /\ n <= adds
    /\ adds <= n * num_steps
    /\ n <= ep
    /\ ep - n <= T - adds
    /\ T - adds <= (ep - n) * MaxGifSteps
    /\ ep > n => adds > buffer_warmup_period

StartT ==
    {0} \cup UNION {(W - TWin)..W : W \in {target_model_sync_period,
                                           buffer_warmup_period, M, 2 * M}}

\* episode counts to start from: next to a multiple of 10, and 10^6
StartEp(T) == {10 * (T \div 10), 10 * (T \div 10) - 1, 10 ^ 6}

\* the last RunIters iterations of the outer loop
TailEpisodes == (num_episodes - RunIters)..num_episodes

\* the first multiple of 10 from n on
NextTen(n) == 10 * ((n + 9) \div 10)

\* the steps of the last inner iteration before the head of the outer loop,
\* an episode of one step that ended with done
LastStep(T) == [s |-> 0, epsilon |-> epsilon(T - 1)]

RunInitAt(n, T, ep, adds) ==
    /\ pc = "L53"
    /\ callT = << >> /\ callRet = << >>
    /\ episodes = n /\ start = n /\ t = IF n = 0 THEN 0 ELSE 1
    /\ envT = T /\ envEp = ep /\ envLive = FALSE
    /\ envObs = IF n = 0 THEN 0 ELSE 1
    /\ policy_epsilon = IF n = 0 THEN << >> ELSE << epsilon(T - 1) >>
    /\ s = IF n = 0 THEN << >> ELSE << 0 >>
    /\ a = IF n = 0 THEN << >> ELSE << LastStep(T) >>
    /\ s_next = IF n = 0 THEN << >> ELSE << 1 >>
    /\ done = (n > 0)
    /\ buffer_adds = adds
    /\ buffer_len = MinOf({adds, capacity})
    /\ buffer_last = IF n = 0 THEN << >>
                     ELSE << [s |-> 0, a |-> LastStep(T), done |-> TRUE,
                              ep |-> ep] >>
    /\ gif = << >>
    /\ trainSteps = adds
    /\ epSteps = IF n = 0 THEN 0 ELSE 1
    /\ pre = << >> /\ calls = << >>
    /\ sched = IF n = 0 THEN << >>
               ELSE << [T |-> T - 1, epsilon |-> epsilon(T - 1)] >>
    /\ schedPrev = << >>
    /\ Tseen = {} /\ TafterStep = {} /\ syncLog = << >>

\* before generate_gif has touched the env
MidInit ==
    \E T \in StartT : \E n \in StartEp(T) :
        /\ LoopHead(n, T, n, T)
        /\ RunInitAt(n, T, n, T)

\* the end of the run: episodes of one step, and runs of generate_gif of one
\* step that brought env.ep to a multiple of 10
TailInit ==
    \E n \in TailEpisodes :
        /\ LoopHead(n, n + (NextTen(n) - n), NextTen(n), n)
        /\ RunInitAt(n, n + (NextTen(n) - n), NextTen(n), n)

RunInit == MidInit \/ TailInit

\* for _ in range(num_episodes):
L53 ==
    /\ pc = "L53"
    /\ IF episodes = num_episodes
       THEN /\ pc' = "end"
            /\ UNCHANGED << episodes, pre, calls >>
       ELSE /\ episodes - start < RunIters
            /\ episodes' = episodes + 1
            /\ pre' = << >>
            /\ calls' = << >>
            /\ pc' = "L54"
    /\ UNCHANGED << callVars, t, envVars, policy_epsilon, locals, bufVars,
                    gif, start, trainSteps, epSteps, sched, schedPrev,
                    Tseen, TafterStep, syncLog >>

\* line 54 with "or" in place of "and"
L54_or ==
    /\ pc = "L54"
    /\ pc' = IF envEp % 10 = 0 \/ envT > buffer_warmup_period
             THEN "L56" ELSE "L62"
    /\ UNCHANGED << callVars, episodes, t, envVars, policy_epsilon, locals,
                    bufVars, gif, histVars >>

\* if env.ep % 10 == 0 and env.T > buffer_warmup_period:
L54 ==
    /\ pc = "L54"
    /\ pc' = IF envEp % 10 = 0 /\ envT > buffer_warmup_period
             THEN "L56" ELSE "L62"
    /\ UNCHANGED << callVars, episodes, t, envVars, policy_epsilon, locals,
                    bufVars, gif, histVars >>

\* km.utils.generate_gif(env=env, policy=policy.set_epsilon(0.01),
\*     filepath='./data/dqn/gifs/ep{:06d}.gif'.format(env.ep), ...)
\* The arguments are evaluated first; generate_gif then makes k steps.
L56 ==
    /\ pc = "L56"
    /\ policy_epsilon' = << f0_01 >>
    /\ gif' = << [filepath |-> GifPath(envEp), epsilon |-> f0_01,
                  ep |-> envEp, T |-> envT, before |-> pre] >>
    /\ pre' = Append(pre, "generate_gif")
    /\ \E k \in generate_gif_steps :
          /\ envT' = envT + k
          /\ envEp' = IF k = 0 THEN envEp ELSE TrainMonitor_reset(envEp)
          /\ envObs' = IF k = 0 THEN envObs ELSE k
          /\ envLive' = IF k = 0 THEN envLive ELSE FALSE
          /\ Tseen' = Tseen \cup ((envT + 1)..(envT + k))
    /\ pc' = "L62"
    /\ UNCHANGED << callVars, episodes, t, locals, bufVars, start,
                    trainSteps, epSteps, calls, sched, schedPrev,
                    TafterStep, syncLog >>

\* s = env.reset()
L62 ==
    /\ pc = "L62"
    /\ envEp' = TrainMonitor_reset(envEp)
    /\ envLive' = TRUE
    /\ envObs' = 0
    /\ s' = << 0 >>
    /\ pre' = Append(pre, "reset")
    /\ t' = 0
    /\ epSteps' = 0
    /\ pc' = "L64"
    /\ UNCHANGED << callVars, episodes, envT, policy_epsilon, a, s_next,
                    done, bufVars, gif, start, trainSteps, calls, sched,
                    schedPrev, Tseen, TafterStep, syncLog >>

\* line 64 with range(num_steps + 1)
L64_extra ==
    /\ pc = "L64"
    /\ IF t = num_steps + 1
       THEN /\ pc' = "L53"
            /\ UNCHANGED << t, calls >>
       ELSE /\ t' = t + 1
            /\ calls' = << >>
            /\ pc' = "L65"
    /\ UNCHANGED << callVars, episodes, envVars, policy_epsilon, locals,
                    bufVars, gif, start, trainSteps, epSteps, pre, sched,
                    schedPrev, Tseen, TafterStep, syncLog >>

\* for t in range(num_steps):
L64 ==
    /\ pc = "L64"
    /\ IF t = num_steps
       THEN /\ pc' = "L53"
            /\ UNCHANGED << t, calls >>
       ELSE /\ t' = t + 1
            /\ calls' = << >>
            /\ pc' = "L65"
    /\ UNCHANGED << callVars, episodes, envVars, policy_epsilon, locals,
                    bufVars, gif, start, trainSteps, epSteps, pre, sched,
                    schedPrev, Tseen, TafterStep, syncLog >>

\* line 65 moved out of the inner loop: executed in its first iteration only
L65_once ==
    /\ pc = "L65"
    /\ IF t = 1
       THEN /\ policy_epsilon' = << epsilon(envT) >>
            /\ sched' = << [T |-> envT, epsilon |-> epsilon(envT)] >>
            /\ schedPrev' = sched
       ELSE UNCHANGED << policy_epsilon, sched, schedPrev >>
    /\ pc' = "L66"
    /\ UNCHANGED << callVars, episodes, t, envVars, locals, bufVars, gif,
                    start, trainSteps, epSteps, pre, calls, Tseen,
                    TafterStep, syncLog >>

\* policy.epsilon = epsilon(env.T)
L65 ==
    /\ pc = "L65"
    /\ policy_epsilon' = << epsilon(envT) >>
    /\ sched' = << [T |-> envT, epsilon |-> epsilon(envT)] >>
    /\ schedPrev' = sched
    /\ pc' = "L66"
    /\ UNCHANGED << callVars, episodes, t, envVars, locals, bufVars, gif,
                    start, trainSteps, epSteps, pre, calls, Tseen,
                    TafterStep, syncLog >>

\* a = policy(s): the action is drawn from the observation s with the
\* exploration rate policy.epsilon
L66 ==
    /\ pc = "L66"
    /\ a' = << [s |-> s[1], epsilon |-> policy_epsilon[1]] >>
    /\ calls' = Append(calls, "policy")
    /\ pc' = "L67"
    /\ UNCHANGED << callVars, episodes, t, envVars, policy_epsilon, s,
                    s_next, done, bufVars, gif, start, trainSteps, epSteps,
                    pre, sched, schedPrev, Tseen, TafterStep, syncLog >>

\* s_next, r, done, info = env.step(a): the environment decides done
L67 ==
    /\ pc = "L67"
    /\ \E d \in BOOLEAN :
          /\ done' = d
          /\ envLive' = (envLive /\ ~d)
    /\ envT' = TrainMonitor_step(envT)
    /\ envObs' = envObs + 1
    /\ s_next' = << envObs + 1 >>
    /\ calls' = Append(calls, IF envLive THEN "step" ELSE "step_after_done")
    /\ trainSteps' = trainSteps + 1
    /\ epSteps' = epSteps + 1
    /\ Tseen' = Tseen \cup {envT'}
    /\ TafterStep' = TafterStep \cup {envT'}
    /\ pc' = "L69"
    /\ UNCHANGED << callVars, episodes, t, envEp, policy_epsilon, s, a,
                    bufVars, gif, start, pre, sched, schedPrev, syncLog >>

\* buffer.add(s, a, r, done, env.ep)
L69 ==
    /\ pc = "L69"
    /\ buffer_adds' = buffer_adds + 1
    /\ buffer_len' = MinOf({buffer_len + 1, capacity})
    /\ buffer_last' = << [s |-> s[1], a |-> a[1], done |-> done,
                          ep |-> envEp] >>
    /\ calls' = Append(calls, "add")
    /\ pc' = "L71"
    /\ UNCHANGED << callVars, episodes, t, envVars, policy_epsilon, locals,
                    gif, start, trainSteps, epSteps, pre, sched, schedPrev,
                    Tseen, TafterStep, syncLog >>

\* line 71 with ">=" in place of ">"
L71_ge ==
    /\ pc = "L71"
    /\ calls' = IF envT >= buffer_warmup_period
                THEN calls \o << "sample", "batch_update" >>
                ELSE calls
    /\ pc' = "L74"
    /\ UNCHANGED << callVars, episodes, t, envVars, policy_epsilon, locals,
                    bufVars, gif, start, trainSteps, epSteps, pre, sched,
                    schedPrev, Tseen, TafterStep, syncLog >>

\* if env.T > buffer_warmup_period: q.batch_update(*buffer.sample())
L71 ==
    /\ pc = "L71"
    /\ calls' = IF envT > buffer_warmup_period
                THEN calls \o << "sample", "batch_update" >>
                ELSE calls
    /\ pc' = "L74"
    /\ UNCHANGED << callVars, episodes, t, envVars, policy_epsilon, locals,
                    bufVars, gif, start, trainSteps, epSteps, pre, sched,
                    schedPrev, Tseen, TafterStep, syncLog >>

\* line 74 testing the loop variable t (here t - 1), not env.T
L74_local ==
    /\ pc = "L74"
    /\ IF (t - 1) % target_model_sync_period = 0
       THEN /\ calls' = Append(calls, "sync_target_model")
            /\ syncLog' = Append(syncLog, envT)
       ELSE UNCHANGED << calls, syncLog >>
    /\ pc' = "L77"
    /\ UNCHANGED << callVars, episodes, t, envVars, policy_epsilon, locals,
                    bufVars, gif, start, trainSteps, epSteps, pre, sched,
                    schedPrev, Tseen, TafterStep >>

\* if env.T % target_model_sync_period == 0: q.sync_target_model()
L74 ==
    /\ pc = "L74"
    /\ IF envT % target_model_sync_period = 0
       THEN /\ calls' = Append(calls, "sync_target_model")
            /\ syncLog' = Append(syncLog, envT)
       ELSE UNCHANGED << calls, syncLog >>
    /\ pc' = "L77"
    /\ UNCHANGED << callVars, episodes, t, envVars, policy_epsilon, locals,
                    bufVars, gif, start, trainSteps, epSteps, pre, sched,
                    schedPrev, Tseen, TafterStep >>

\* lines 77-78 without the break
L77_nobreak ==
    /\ pc = "L77"
    /\ pc' = "L80"
    /\ UNCHANGED << callVars, episodes, t, envVars, policy_epsilon, locals,
                    bufVars, gif, histVars >>

\* if done: break
L77 ==
    /\ pc = "L77"
    /\ pc' = IF done THEN "L53" ELSE "L80"
    /\ calls' = IF done THEN Append(calls, "break") ELSE calls
    /\ UNCHANGED << callVars, episodes, t, envVars, policy_epsilon, locals,
                    bufVars, gif, start, trainSteps, epSteps, pre, sched,
                    schedPrev, Tseen, TafterStep, syncLog >>

\* s = s_next
L80 ==
    /\ pc = "L80"
    /\ s' = s_next
    /\ pc' = "L64"
    /\ UNCHANGED << callVars, episodes, t, envVars, policy_epsilon, a,
                    s_next, done, bufVars, gif, histVars >>

RunNext ==
    \/ L53 \/ L54 \/ L56 \/ L62 \/ L64 \/ L65 \/ L66 \/ L67 \/ L69 \/ L71
    \/ L74 \/ L77 \/ L80

SpecRun == RunInit /\ [][RunNext]_vars

\* the end of the run, every call of the libraries returning
SpecTail == TailInit /\ [][RunNext]_vars /\ WF_vars(RunNext)

Init == EpsInit \/ RunInit

Next == EpsNext \/ RunNext

Spec == Init /\ [][Next]_vars

(***************************************************************************)
(* The statements about the schedule.                                      *)
(***************************************************************************)
\* the formulas of the contract, evaluated in binary64 as Python does
Seg1(T) == FSub(f1, FDivInt(FMulInt(f0_9, T), M))

Seg2(T) == FSub(f0_1, FDivInt(FMulInt(f0_09, T - M), M))

Floor == f0_01

\* the same formulas as exact fractions num / (den1 * den2)
ExactNum(T) ==
    IF T < M THEN 10 * M - 9 * T
    ELSE IF T < 2 * M THEN 10 * M - 9 * (T - M)
    ELSE 1

ExactDen1(T) == IF T < 2 * M THEN 10000 ELSE 100

ExactDen2(T) == IF T < M THEN 1000 ELSE IF T < 2 * M THEN 10000 ELSE 1

\* |x - num / (d1 * d2)| <= 2^-k, for a binary64 x
NearFraction(x, num, d1, d2, k) ==
    LET E == -x.e
        lhs == BitsDist(Trim(MulSmall(Trim(MulSmall(x.m, d1, 0)), d2, 0)),
                        Shl(NatBits(num), E))
        rhs == Shl(Trim(MulSmall(NatBits(d1), d2, 0)), E - k)
    IN  E >= k /\ BitsLeq(lhs, rhs)

\* |x - y| <= 2^-k, for binary64 x, y
FNear(x, y, k) ==
    LET lo == IF x.e < y.e THEN x.e ELSE y.e
    IN  /\ -k - lo >= 0
        /\ BitsLeq(BitsDist(Shl(x.m, x.e - lo), Shl(y.m, y.e - lo)),
                   Shl(<< 1 >>, -k - lo))

ContractAt(T, r) ==
    /\ T < M => r = Seg1(T)
    /\ (M <= T /\ T < 2 * M) => r = Seg2(T)
    /\ T >= 2 * M => r = Floor
    /\ NearFraction(r, ExactNum(T), ExactDen1(T), ExactDen2(T), 50)

\* C1: for every step count T >= 0, epsilon(T) is 1 - 0.9*T/M when T < M,
\* 0.1 - 0.09*(T - M)/M when M <= T < 2M and 0.01 from 2M on (the float
\* expression, which lies within 2^-50 of the exact fraction), and two calls
\* with the same T return the same value.
C1_Contract ==
    pc = "returned" =>
        /\ ContractAt(callT[1], callRet[1])
        /\ ContractAt(callT[2], callRet[2])
        /\ callT[1] = callT[2] => callRet[1] = callRet[2]

C1_Witness ==
    /\ pc = "returned"
    /\ callT[1] = M - 1
    /\ callT[2] = 2 * M

RangeAt(T, r) ==
    /\ T < M => FLess(f0_1, r) /\ FLeq(r, f1)
    /\ (M <= T /\ T < 2 * M) => FLess(f0_01, r) /\ FLeq(r, f0_1)
    /\ T >= 2 * M => r = f0_01

\* C2: epsilon(T) lies in (0.1, 1.0] for T in [0, M), in (0.01, 0.1] for T in
\* [M, 2M), and equals 0.01 for T >= 2M.
C2_Ranges ==
    pc = "returned" =>
        RangeAt(callT[1], callRet[1]) /\ RangeAt(callT[2], callRet[2])

C2_Witness ==
    /\ pc = "returned"
    /\ callT[1] = 2 * M - 1
    /\ callT[2] = M

EndpointsAt(T, r) ==
    /\ T = 0 => r = f1
    /\ T = M => r = f0_1
    /\ T = 2 * M => r = f0_01

\* C3 as stated: epsilon(0) == 1.0, epsilon(M) == 0.1, epsilon(2M) == 0.01,
\* the first segment's formula at M equals epsilon(M) and the second
\* segment's formula at 2M equals epsilon(2M).
C3_Original ==
    pc = "returned" =>
        /\ EndpointsAt(callT[1], callRet[1])
        /\ callT[1] = M => Seg1(M) = callRet[1]
        /\ callT[1] = 2 * M => Seg2(2 * M) = callRet[1]

\* C3, amended: epsilon(0) == 1.0, epsilon(M) == 0.1 and epsilon(2M) == 0.01
\* exactly; the first segment's formula at M and the second segment's at 2M
\* differ from epsilon(M) and epsilon(2M), by a rounding error of at most
\* 2^-55, which is less than the schedule moves in one step.
C3_Continuity ==
    pc = "returned" =>
        /\ EndpointsAt(callT[1], callRet[1])
        /\ callT[1] = M =>
              /\ Seg1(M) # callRet[1]
              /\ FNear(Seg1(M), callRet[1], 55)
              /\ FLess(callRet[1], Seg1(M - 1))
        /\ callT[1] = 2 * M =>
              /\ Seg2(2 * M) # callRet[1]
              /\ FNear(Seg2(2 * M), callRet[1], 55)
              /\ FLess(callRet[1], Seg2(2 * M - 1))

C3_Witness ==
    /\ pc = "returned"
    /\ callT[1] = M
    /\ callT[2] = 2 * M
    /\ callRet[1] = f0_1
    /\ callRet[2] = f0_01

MonotoneAt(T1, r1, T2, r2) ==
    /\ T1 <= T2 => FLeq(r2, r1)
    /\ (T1 < T2 /\ T2 <= 2 * M) => FLess(r2, r1)
    /\ (2 * M <= T1 /\ T1 <= T2) => r1 = f0_01 /\ r2 = r1

Range(q) == {q[i] : i \in DOMAIN q}

Count(q, x) == Cardinality({i \in DOMAIN q : q[i] = x})

\* the place of the first x in q
Pos(q, x) == MinOf({i \in DOMAIN q : q[i] = x})

InnerLoop == {"L64", "L65", "L66", "L67", "L69", "L71", "L74", "L77", "L80"}

\* the sync test of this inner iteration has been made
SyncTested == pc \in {"L77", "L80"} \/ "break" \in Range(calls)

SyncIff ==
    SyncTested =>
        ("sync_target_model" \in Range(calls)
            <=> envT % target_model_sync_period = 0)

\* the multiples of the period among the values in S, bar the one whose
\* test is still to come in this inner iteration
Due(S) ==
    {v \in S : /\ v % target_model_sync_period = 0
               /\ ~(v = envT /\ pc \in {"L69", "L71", "L74"})}

SyncsOnlyAtMultiples ==
    \A i \in DOMAIN syncLog : syncLog[i] % target_model_sync_period = 0

DigitsVal(d) ==
    LET g(j) == IF j <= Len(d) THEN d[j] * 10 ^ (Len(d) - j) ELSE 0
    IN  g(1) + g(2) + g(3) + g(4) + g(5) + g(6) + g(7) + g(8) + g(9)

\* generate_gif is called first thing in an iteration of the outer loop,
\* before env.reset(), when env.ep is a multiple of 10 and env.T > 50000
GifPlace ==
    /\ gif # << >> =>
          /\ gif[1].ep % 10 = 0
          /\ gif[1].T > buffer_warmup_period
          /\ gif[1].before = << >>
          /\ gif[1].epsilon = f0_01
    /\ "generate_gif" \notin Range(calls)
    /\ pre \in {<< >>, << "generate_gif" >>, << "reset" >>,
                << "generate_gif", "reset" >>}
    /\ pc = "L56" =>
          /\ pre = << >>
          /\ envEp % 10 = 0
          /\ envT > buffer_warmup_period
    /\ pc \in InnerLoop => pre[Len(pre)] = "reset"

GifFile(f, ep) ==
    /\ f.dir = "./data/dqn/gifs/"
    /\ f.stem = "ep"
    /\ f.ext = ".gif"
    /\ DigitsVal(f.digits) = ep

\* C6 as stated: generate_gif is called only at the start of an outer
\* iteration, before env.reset(), when env.ep % 10 == 0 and env.T > 50000,
\* and the file written is ./data/dqn/gifs/ep<env.ep as 6 digits>.gif.
C6_Original ==
    /\ GifPlace
    /\ gif # << >> =>
          /\ GifFile(gif[1].filepath, gif[1].ep)
          /\ Len(gif[1].filepath.digits) = 6

\* C6, amended: as stated, the file being ./data/dqn/gifs/ep<env.ep>.gif
\* with env.ep in decimal, padded with zeros to 6 digits when it has fewer:
\* 7 digits from episode 1,000,000 on.
C6_Gif ==
    /\ GifPlace
    /\ gif # << >> =>
          /\ GifFile(gif[1].filepath, gif[1].ep)
          /\ Len(gif[1].filepath.digits) >= 6
          /\ gif[1].ep < 10 ^ 6 <=> Len(gif[1].filepath.digits) = 6
          /\ Len(gif[1].filepath.digits) > 6 =>
                gif[1].filepath.digits[1] # 0

C6_Witness ==
    /\ pc = "L62"
    /\ gif # << >>
    /\ gif[1].ep = 10 ^ 6
    /\ gif[1].filepath.digits = << 1, 0, 0, 0, 0, 0, 0 >>

C7_Bounds ==
    /\ episodes <= num_episodes
    /\ t <= num_steps
    /\ epSteps <= num_steps
    /\ trainSteps <= episodes * num_steps
    /\ pc \in InnerLoop => Count(pre, "reset") = 1
    /\ (pc = "L53" /\ episodes > start) => Count(pre, "reset") = 1
    /\ pc = "end" =>
          /\ episodes = num_episodes
          /\ trainSteps <= num_episodes * num_steps

\* C7: the run makes at most num_episodes iterations of the outer loop, each
\* calling env.reset() once and env.step at most num_steps times, and, every
\* call returning, it ends, after at most num_episodes * num_steps steps.
C7_Terminates == []C7_Bounds /\ <>(pc = "end")

C7_Witness ==
    /\ pc = "end"
    /\ episodes = num_episodes
    /\ episodes - start = RunIters
    /\ epSteps = num_steps

\* C8: at a = policy(s) and at the env.step that follows, policy.epsilon is
\* epsilon(env.T) for env.T before that step, also in an episode that
\* follows generate_gif's set_epsilon(0.01); the action is drawn with 0.01
\* only when epsilon(env.T) is 0.01.
C8_Rate ==
    /\ pc \in {"L66", "L67"} => policy_epsilon = << epsilon(envT) >>
    /\ pc = "L67" =>
          /\ a[1].epsilon = epsilon(envT)
          /\ a[1].epsilon = f0_01 => envT >= 2 * M

C8_Witness ==
    /\ pc = "L67"
    /\ "generate_gif" \in Range(pre)
    /\ t = 2
    /\ envT < 2 * M
    /\ gif[1].epsilon = f0_01

\* the update test of this inner iteration has been made
UpdateTested == pc \in {"L74", "L77", "L80"} \/ "break" \in Range(calls)

\* C9: q.batch_update(*buffer.sample()) runs in an inner iteration iff env.T
\* after its env.step exceeds 50000, after that iteration's buffer.add; when
\* buffer.sample() is called more than 50000 transitions, so at least
\* batch_size, have been added.
C9_Warmup ==
    /\ UpdateTested =>
          ("batch_update" \in Range(calls) <=> envT > buffer_warmup_period)
    /\ "sample" \in Range(calls) <=> "batch_update" \in Range(calls)
    /\ "sample" \in Range(calls) =>
          /\ "add" \in Range(calls)
          /\ Pos(calls, "add") < Pos(calls, "sample")
          /\ Pos(calls, "sample") < Pos(calls, "batch_update")
          /\ buffer_adds > buffer_warmup_period
          /\ buffer_len >= batch_size

C9_Witness ==
    /\ pc = "L74"
    /\ envT = buffer_warmup_period + 1
    /\ buffer_adds = buffer_warmup_period + 1
    /\ "batch_update" \in Range(calls)

\* C10: once env.step has returned done the inner loop breaks, after the
\* transition has been added and the update and sync tests made, and
\* env.step is not called again before env.reset(); after a step that did
\* not return done the next action is drawn from s_next.
C10_Episode ==
    /\ "step_after_done" \notin Range(calls)
    /\ pc = "L67" => envLive
    /\ pc \in {"L66", "L67"} => s = << envObs >>
    /\ pc = "L67" => a[1].s = envObs
    /\ pc = "L80" => ~done
    /\ (pc \in {"L64", "L65", "L66", "L67"} /\ epSteps >= 1) => ~done
    /\ "break" \in Range(calls) =>
          /\ pc \in {"L53", "end"} /\ done /\ ~envLive
          /\ "add" \in Range(calls)
          /\ Pos(calls, "step") < Pos(calls, "add")
          /\ Pos(calls, "add") < Pos(calls, "break")
          /\ buffer_last = << [s |-> s[1], a |-> a[1], done |-> TRUE,
                               ep |-> envEp] >>
          /\ "batch_update" \in Range(calls) <=> envT > buffer_warmup_period
          /\ "sync_target_model" \in Range(calls)
                <=> envT % target_model_sync_period = 0
    /\ (pc = "L53" /\ done /\ episodes > start) => "break" \in Range(calls)

C10_Witness ==
    /\ pc = "L53"
    /\ "break" \in Range(calls)
    /\ t = 2
    /\ s = << 1 >>
    /\ envT = buffer_warmup_period

=============================================================================
